---- MODULE Spec2Model ----
(***************************************************************************)
(* Model of ADV_PAPAGAYO/script.js: one click handler                      *)
(* (fetchAndDisplayUsers) that fetches a user list with a 10 s abort       *)
(* timer, renders it as cards, and maps failures to a banner sentence.     *)
(*                                                                         *)
(* JavaScript runs each handler segment to completion, so one action is    *)
(* one segment between two awaits: the click up to "await fetch", the      *)
(* settlement of fetch up to "await response.json()" (or to the end of the *)
(* handler when it throws), and the settlement of response.json() to the   *)
(* end of the handler.  Several clicks may overlap: each is an operation   *)
(* o \in Ops with its own position pc[o] and its own timer.                *)
(*                                                                         *)
(* Strings are TLA+ strings; String.prototype.includes and the regexp      *)
(* replacements are computed character by character.  The pictographs of   *)
(* the source (not representable in a TLA+ string) are written as bracketed*)
(* ASCII names, e.g. "[warning]" for U+26A0 U+FE0F, and the grave accent   *)
(* U+0060, which a TLA+ string cannot hold either, as Backtick.            *)
(***************************************************************************)
EXTENDS Integers, Sequences, FiniteSets, TLC

\* Number of clicks the model follows (overlapping or not).
MaxOps == 2
\* Longest JSON array the server returns.
MaxUsers == 2
\* Most pieces an input string of escapeHTML is made of.
MaxParts == 3

Ops == 1..MaxOps

(***************************************************************************)
(* JavaScript values, as tagged records.                                   *)
(***************************************************************************)
Undefined == [t |-> "undefined"]
Null == [t |-> "null"]
Num(n) == [t |-> "number", v |-> n]
Str(s) == [t |-> "string", v |-> s]
Arr(s) == [t |-> "array", v |-> s]
Address(city) == [t |-> "object", city |-> city]
User(id, name, username, email, address) ==
    [t |-> "object", id |-> id, name |-> name, username |-> username,
     email |-> email, address |-> address]

\* An Error object: its name and its message.
Err(name, message) == [name |-> name, message |-> message]
NoError == Err("", "")

\* Completion of a call: a normal return or a throw.
Return(v) == [threw |-> FALSE, error |-> NoError, value |-> v]
Throw(e) == [threw |-> TRUE, error |-> e, value |-> Undefined]

\* Property read v.key: undefined unless v is an object that has the key.
Get(v, key) == IF v.t = "object" /\ key \in DOMAIN v THEN v[key] ELSE Undefined

\* Optional chaining v?.key.
GetOpt(v, key) == IF v.t \in {"undefined", "null"} THEN Undefined ELSE Get(v, key)

\* ToBoolean.
Truthy(v) ==
    CASE v.t \in {"undefined", "null"} -> FALSE
      [] v.t = "number" -> v.v # 0
      [] v.t = "string" -> v.v # ""
      [] OTHER -> TRUE

\* The expression a || b.
OrElse(a, b) == IF Truthy(a) THEN a ELSE b

Digit(d) == SubSeq("0123456789", d + 1, d + 1)

RECURSIVE NatToString(_)
NatToString(n) == IF n < 10 THEN Digit(n) ELSE NatToString(n \div 10) \o Digit(n % 10)

\* The ToString conversion, as String(v) and template interpolation apply it.
JsString(v) ==
    CASE v.t = "undefined" -> "undefined"
      [] v.t = "null" -> "null"
      [] v.t = "number" -> NatToString(v.v)
      [] v.t = "string" -> v.v
      [] OTHER -> "[object Object]"

\* String.prototype.includes.
Includes(s, sub) ==
    \E str \in {s} :
        \E i \in 1..(Len(str) - Len(sub) + 1) : SubSeq(str, i, i + Len(sub) - 1) = sub

\* s.replace(/c/g, r) for a one-character pattern c.
RECURSIVE ReplaceAll(_, _, _)
ReplaceAll(s, c, r) ==
    IF Len(s) = 0 THEN ""
    ELSE (IF SubSeq(s, 1, 1) = c THEN r ELSE SubSeq(s, 1, 1))
         \o ReplaceAll(SubSeq(s, 2, Len(s)), c, r)

\* The grave accent character (U+0060), written as a character no input uses.
Backtick == "^"

\* escapeHTML replacing the ampersand last instead of first.
escapeHTMLAmpLast(unsafe) ==
    IF ~Truthy(unsafe) THEN ""
    ELSE LET s0 == JsString(unsafe)
             s2 == ReplaceAll(s0, "<", "&lt;")
             s3 == ReplaceAll(s2, ">", "&gt;")
             s4 == ReplaceAll(s3, "\"", "&quot;")
             s5 == ReplaceAll(s4, "'", "&#039;")
             s6 == ReplaceAll(s5, Backtick, "&#96;")
             s7 == ReplaceAll(s6, "/", "&#47;")
         IN  ReplaceAll(s7, "&", "&amp;")

\* escapeHTML without the replacement of the slash.
escapeHTMLNoSlash(unsafe) ==
    IF ~Truthy(unsafe) THEN ""
    ELSE LET s0 == JsString(unsafe)
             s1 == ReplaceAll(s0, "&", "&amp;")
             s2 == ReplaceAll(s1, "<", "&lt;")
             s3 == ReplaceAll(s2, ">", "&gt;")
             s4 == ReplaceAll(s3, "\"", "&quot;")
             s5 == ReplaceAll(s4, "'", "&#039;")
         IN  ReplaceAll(s5, Backtick, "&#96;")

escapeHTML(unsafe) ==
    IF ~Truthy(unsafe) THEN ""
    ELSE LET s0 == JsString(unsafe)
             s1 == ReplaceAll(s0, "&", "&amp;")
             s2 == ReplaceAll(s1, "<", "&lt;")
             s3 == ReplaceAll(s2, ">", "&gt;")
             s4 == ReplaceAll(s3, "\"", "&quot;")
             s5 == ReplaceAll(s4, "'", "&#039;")
             s6 == ReplaceAll(s5, Backtick, "&#96;")
         IN  ReplaceAll(s6, "/", "&#47;")

(***************************************************************************)
(* Fixed texts of the source.                                              *)
(***************************************************************************)
MsgUnexpected == "An unexpected error occurred. Please try again."
MsgConnect == "Unable to connect to the server. Please check your internet connection."
MsgServer == "Server error. Please try again later."
MsgTimeout == "Request timed out. Please check your connection and try again."
WarningMarker == "[warning] "
IconUser == "[user] "
IconEmail == "<i>[email]</i> Email: "
IconCity == "<i>[city]</i> City: "
IconUsername == "<i>[username]</i> Username: "
NoUsersMessage == [tag |-> "p", class |-> "error", text |-> "No users found to display."]

(***************************************************************************)
(* The page: the three elements the handlers write.  showCalls/hideCalls   *)
(* count the calls of showLoading/hideLoading.  The page starts with the   *)
(* loading indicator and the error banner hidden and the container empty.  *)
(***************************************************************************)
InitialPage ==
    [loadingHidden |-> TRUE, errorHidden |-> TRUE, errorText |-> "",
     container |-> <<>>, showCalls |-> 0, hideCalls |-> 0]

showLoading(d) == [d EXCEPT !.loadingHidden = FALSE, !.showCalls = @ + 1]

hideLoading(d) == [d EXCEPT !.loadingHidden = TRUE, !.hideCalls = @ + 1]

showError(d, message) == [d EXCEPT !.errorText = message, !.errorHidden = FALSE]

hideError(d) == [d EXCEPT !.errorHidden = TRUE]

clearContainer(d) == [d EXCEPT !.container = <<>>]

showNoUsersMessage(d) == [d EXCEPT !.container = <<NoUsersMessage>>]

(***************************************************************************)
(* fetchUsers.                                                             *)
(***************************************************************************)
\* response.ok
ResponseOk(status) == status >= 200 /\ status <= 299

\* The Error thrown for a response that is not ok.
HttpError(status, statusText) ==
    Err("Error", "HTTP " \o NatToString(status) \o ": " \o statusText)

\* The Error thrown for a body that is not an array.
FormatError == Err("Error", "Invalid data format: Expected an array of users")

\* fetchUsersCatch without its AbortError branch.
fetchUsersCatchNoAbort(error) ==
    IF error.name = "TypeError"
    THEN Err("Error", "Network error: Please check your internet connection")
    ELSE Err("Error", "Failed to fetch users: " \o error.message)

\* The catch block of fetchUsers: the Error it throws for the error it caught.
fetchUsersCatch(error) ==
    IF error.name = "AbortError"
    THEN Err("Error", "Request timeout: The server took too long to respond")
    ELSE IF error.name = "TypeError"
    THEN Err("Error", "Network error: Please check your internet connection")
    ELSE Err("Error", "Failed to fetch users: " \o error.message)

\* fetchUsers when the fetch promise rejects with error.
fetchUsersRejected(error) == Throw(fetchUsersCatch(error))

\* fetchUsers when the response arrives with a status that is not ok.
fetchUsersNotOk(status, statusText) ==
    Throw(fetchUsersCatch(HttpError(status, statusText)))

\* fetchUsers when response.json() resolves with body.
fetchUsersParsed(body) ==
    IF body.t # "array" THEN Throw(fetchUsersCatch(FormatError)) ELSE Return(body)

(***************************************************************************)
(* Elements the model lets a JSON array hold.                              *)
(***************************************************************************)
UserA == User(Num(1), Str("Tom & Jo"), Str("tj"), Str("t@x.io"), Address(Str("Rome")))
UserB == User(Num(2), Undefined, Undefined, Undefined, Undefined)

\* Elements a JSON array can hold: objects, null, a number.
Elements == {UserA, UserB, Null, Num(7)}

\* Field values of the records createUserCard is applied to on its own:
\* absent, null, falsy (0, the empty string) and ordinary values, some with
\* characters that escapeHTML replaces.
CardIds == {Undefined, Num(0), Num(1), Str("<7>")}
CardNames == {Undefined, Str(""), Str("A&B")}
CardUsernames == {Undefined, Str(""), Str("a/b")}
CardEmails == {Undefined, Str(""), Str("a@b")}
CardAddresses ==
    {Undefined, Null, Address(Undefined), Address(Str("")), Address(Str("O'Rome"))}

CardInputs ==
    {User(id, name, username, email, address) :
        id \in CardIds, name \in CardNames, username \in CardUsernames,
        email \in CardEmails, address \in CardAddresses}

(***************************************************************************)
(* Rendering.                                                              *)
(***************************************************************************)
NullReadError == Err("TypeError", "Cannot read properties of null (reading 'id')")

\* createUserCard reading user.address.city without optional chaining.
createUserCardNoOptionalChain(user) ==
    IF user.t \in {"null", "undefined"} THEN Throw(NullReadError)
    ELSE IF Get(user, "address").t \in {"null", "undefined"}
    THEN Throw(Err("TypeError", "Cannot read properties of undefined (reading 'city')"))
    ELSE LET name == OrElse(Get(user, "name"), Str("Name not available"))
             email == OrElse(Get(user, "email"), Str("Email not available"))
             city == OrElse(Get(Get(user, "address"), "city"), Str("City not available"))
             username == OrElse(Get(user, "username"), Str("Username not available"))
         IN  Return([tag |-> "div", class |-> "user-card",
                     userId |-> "ID: " \o JsString(OrElse(Get(user, "id"), Str("N/A"))),
                     name |-> IconUser \o escapeHTML(name),
                     email |-> IconEmail \o escapeHTML(email),
                     city |-> IconCity \o escapeHTML(city),
                     username |-> IconUsername \o escapeHTML(username)])

\* createUserCard putting the name into the markup without escapeHTML.
createUserCardRawName(user) ==
    IF user.t \in {"null", "undefined"} THEN Throw(NullReadError)
    ELSE LET name == OrElse(Get(user, "name"), Str("Name not available"))
             email == OrElse(Get(user, "email"), Str("Email not available"))
             city == OrElse(GetOpt(Get(user, "address"), "city"), Str("City not available"))
             username == OrElse(Get(user, "username"), Str("Username not available"))
         IN  Return([tag |-> "div", class |-> "user-card",
                     userId |-> "ID: " \o JsString(OrElse(Get(user, "id"), Str("N/A"))),
                     name |-> IconUser \o JsString(name),
                     email |-> IconEmail \o escapeHTML(email),
                     city |-> IconCity \o escapeHTML(city),
                     username |-> IconUsername \o escapeHTML(username)])

createUserCard(user) ==
    IF user.t \in {"null", "undefined"} THEN Throw(NullReadError)
    ELSE LET name == OrElse(Get(user, "name"), Str("Name not available"))
             email == OrElse(Get(user, "email"), Str("Email not available"))
             city == OrElse(GetOpt(Get(user, "address"), "city"), Str("City not available"))
             username == OrElse(Get(user, "username"), Str("Username not available"))
         IN  Return([tag |-> "div", class |-> "user-card",
                     userId |-> "ID: " \o JsString(OrElse(Get(user, "id"), Str("N/A"))),
                     name |-> IconUser \o escapeHTML(name),
                     email |-> IconEmail \o escapeHTML(email),
                     city |-> IconCity \o escapeHTML(city),
                     username |-> IconUsername \o escapeHTML(username)])

\* createUserCard on each element, computed once (TLC evaluates a constant
\* definition a single time; the character-wise escaping is costly).
CardTable == [e \in Elements \cup CardInputs |-> createUserCard(e)]

\* displayUsers appending each card to the container as it is made.
displayUsersAppendEach(d, users) ==
    LET n == Len(users.v)
        made == [i \in 1..n |-> CardTable[users.v[i]]]
        d0 == clearContainer(d)
    IN  IF ~Truthy(users) \/ n = 0
        THEN [threw |-> FALSE, error |-> NoError, page |-> showNoUsersMessage(d0)]
        ELSE IF \E i \in 1..n : made[i].threw
        THEN LET k == CHOOSE i \in 1..n :
                          made[i].threw /\ \A j \in 1..(i - 1) : ~made[j].threw
             IN  [threw |-> TRUE, error |-> made[k].error,
                  page |-> [d0 EXCEPT !.container = [i \in 1..(k - 1) |-> made[i].value]]]
        ELSE [threw |-> FALSE, error |-> NoError,
              page |-> [d0 EXCEPT !.container = [i \in 1..n |-> made[i].value]]]

\* displayUsers without its test for an empty list.
displayUsersNoEmptyCheck(d, users) ==
    LET n == Len(users.v)
        made == [i \in 1..n |-> CardTable[users.v[i]]]
        d0 == clearContainer(d)
    IN  IF \E i \in 1..n : made[i].threw
        THEN LET k == CHOOSE i \in 1..n :
                          made[i].threw /\ \A j \in 1..(i - 1) : ~made[j].threw
             IN  [threw |-> TRUE, error |-> made[k].error, page |-> d0]
        ELSE [threw |-> FALSE, error |-> NoError,
              page |-> [d0 EXCEPT !.container = [i \in 1..n |-> made[i].value]]]

\* displayUsers without the clearing of the container: the cards are added
\* to those already there.
displayUsersKeepsOld(d, users) ==
    LET n == Len(users.v)
        made == [i \in 1..n |-> CardTable[users.v[i]]]
    IN  IF ~Truthy(users) \/ n = 0
        THEN [threw |-> FALSE, error |-> NoError, page |-> showNoUsersMessage(d)]
        ELSE IF \E i \in 1..n : made[i].threw
        THEN LET k == CHOOSE i \in 1..n :
                          made[i].threw /\ \A j \in 1..(i - 1) : ~made[j].threw
             IN  [threw |-> TRUE, error |-> made[k].error, page |-> d]
        ELSE [threw |-> FALSE, error |-> NoError,
              page |-> [d EXCEPT !.container = @ \o [i \in 1..n |-> made[i].value]]]

\* displayUsers on the page d: the page it leaves and the error it throws, if
\* any.  The cards go to a fragment that is appended only after the loop, so
\* a throw in the loop leaves the container as cleared.
displayUsers(d, users) ==
    LET n == Len(users.v)
        made == [i \in 1..n |-> CardTable[users.v[i]]]
        d0 == clearContainer(d)
    IN  IF ~Truthy(users) \/ n = 0
        THEN [threw |-> FALSE, error |-> NoError, page |-> showNoUsersMessage(d0)]
        ELSE IF \E i \in 1..n : made[i].threw
        THEN LET k == CHOOSE i \in 1..n :
                          made[i].threw /\ \A j \in 1..(i - 1) : ~made[j].threw
             IN  [threw |-> TRUE, error |-> made[k].error, page |-> d0]
        ELSE [threw |-> FALSE, error |-> NoError,
              page |-> [d0 EXCEPT !.container = [i \in 1..n |-> made[i].value]]]

\* handleError showing the error's own message when no pattern matches.
handleErrorRawDefault(d, error) ==
    LET userMessage ==
            IF Includes(error.message, "Failed to fetch") THEN MsgConnect
            ELSE IF Includes(error.message, "HTTP") THEN MsgServer
            ELSE IF Includes(error.message, "timeout") THEN MsgTimeout
            ELSE error.message
    IN  showError(d, WarningMarker \o userMessage)

handleError(d, error) ==
    LET userMessage ==
            IF Includes(error.message, "Failed to fetch") THEN MsgConnect
            ELSE IF Includes(error.message, "HTTP") THEN MsgServer
            ELSE IF Includes(error.message, "timeout") THEN MsgTimeout
            ELSE MsgUnexpected
    IN  showError(d, WarningMarker \o userMessage)

(***************************************************************************)
(* fetchAndDisplayUsers.                                                   *)
(***************************************************************************)
\* fetchAndDisplayUsersStart without hideError.
fetchAndDisplayUsersStartKeepsError(d) == clearContainer(showLoading(d))

\* fetchAndDisplayUsersStart without clearContainer.
fetchAndDisplayUsersStartKeepsCards(d) == hideError(showLoading(d))

\* fetchAndDisplayUsersStart without showLoading.
fetchAndDisplayUsersStartNoLoading(d) == clearContainer(hideError(d))

\* The segment before "await fetchUsers()".
fetchAndDisplayUsersStart(d) == clearContainer(hideError(showLoading(d)))

\* fetchAndDisplayUsersSettle with hideLoading at the end of the try block
\* instead of in a finally block.
fetchAndDisplayUsersSettleNoFinally(d, res) ==
    LET shown == IF res.threw
                 THEN [threw |-> TRUE, error |-> res.error, page |-> d]
                 ELSE displayUsers(d, res.value)
    IN  [page |-> IF shown.threw THEN handleError(shown.page, shown.error)
                  ELSE hideLoading(shown.page),
         caught |-> shown.error,
         uncaught |-> NoError]

\* The segment after fetchUsers has settled with res: try, catch, finally.
\* caught is the error the catch block handled, uncaught the one that left
\* the handler.
fetchAndDisplayUsersSettle(d, res) ==
    LET shown == IF res.threw
                 THEN [threw |-> TRUE, error |-> res.error, page |-> d]
                 ELSE displayUsers(d, res.value)
        handled == IF shown.threw THEN handleError(shown.page, shown.error)
                   ELSE shown.page
    IN  [page |-> hideLoading(handled),
         caught |-> shown.error,
         uncaught |-> NoError]

(***************************************************************************)
(* What the network can deliver.                                           *)
(***************************************************************************)
RECURSIVE SeqsUpTo(_, _)
SeqsUpTo(S, n) ==
    IF n = 0 THEN {<<>>}
    ELSE LET shorter == SeqsUpTo(S, n - 1)
         IN  shorter \cup {Append(q, e) : q \in shorter, e \in S}

\* Values response.json() can resolve with: arrays, and JSON that is no array.
Bodies == {Arr(q) : q \in SeqsUpTo(Elements, MaxUsers)} \cup {UserA, Null}

\* Status line of a response: status and reason phrase.
Responses ==
    {<<200, "OK">>, <<404, "Not Found">>, <<500, "Internal Server Error">>,
     <<504, "Gateway Timeout">>, <<503, "">>}

\* What fetch rejects with when the transport fails (message by browser).
TransportErrors ==
    {Err("TypeError", "Failed to fetch"),
     Err("TypeError", "NetworkError when attempting to fetch resource.")}

\* What fetch rejects with when controller.abort() is called.
AbortError == Err("AbortError", "signal is aborted without reason")

\* What response.json() rejects with: a body that is no JSON, a body stream
\* that breaks.
BodyErrors ==
    {Err("SyntaxError", "Unexpected token < in JSON at position 0"),
     Err("TypeError", "network error")}

(***************************************************************************)
(* State.                                                                  *)
(***************************************************************************)
VARIABLES
    page,   \* the loading indicator, the error banner, the card container
    pc,     \* pc[o]: where operation o stands
    timer,  \* timer[o]: the 10 s timer of operation o
    last,   \* the latest handler segment that ran: what it met, what it did
    overlapped, \* whether some click came while an earlier operation was pending
    arg,    \* the argument of the function applied on its own (CardSpec, EscapeSpec)
    result  \* what that function returned

vars == <<page, pc, timer, last, overlapped, arg, result>>

\* The variables of the page's operations, and those of a function applied
\* on its own.
handlerVars == <<page, pc, timer, last, overlapped>>
pureVars == <<arg, result>>

\* Operations that have started and not completed.
Pending == {o \in Ops : pc[o] \in {"awaitFetch", "awaitJson"}}

Segment(o, step, event, users, caught, uncaught) ==
    [op |-> o, step |-> step, event |-> event, users |-> users,
     caught |-> caught, uncaught |-> uncaught]

\* The page as loaded, no click yet.
HandlerInit ==
    /\ page = InitialPage
    /\ pc = [o \in Ops |-> "idle"]
    /\ timer = [o \in Ops |-> "unset"]
    /\ last = Segment(0, "none", "none", Undefined, NoError, NoError)
    /\ overlapped = FALSE

Init ==
    /\ HandlerInit
    /\ arg = Undefined
    /\ result = Undefined

\* The handler's last segment on operation o, fetchUsers having settled with
\* res.  event names what the segment met; a list that fetchUsers returned
\* either renders or makes displayUsers throw.
Settle(o, event, res) ==
    \E out \in {fetchAndDisplayUsersSettle(page, res)} :
        LET met == IF res.threw THEN event
                   ELSE IF out.caught # NoError THEN "render"
                   ELSE "rendered"
        IN  /\ page' = out.page
            /\ pc' = [pc EXCEPT ![o] = "done"]
            /\ last' = Segment(o, "settle", met, res.value, out.caught, out.uncaught)

\* The button is clicked: operation o starts and suspends on fetch.
Click(o) ==
    /\ pc[o] = "idle"
    /\ \A j \in 1..(o - 1) : pc[j] # "idle"
    /\ page' = fetchAndDisplayUsersStart(page)
    /\ pc' = [pc EXCEPT ![o] = "awaitFetch"]
    /\ timer' = [timer EXCEPT ![o] = "armed"]
    /\ last' = Segment(o, "click", "none", Undefined, NoError, NoError)
    /\ overlapped' = (overlapped \/ Pending # {})
    /\ UNCHANGED pureVars

\* The 10 s timer fires: controller.abort().  A fetch still pending rejects
\* with an AbortError; a request already over is not affected.
TimerFire(o) ==
    /\ timer[o] = "armed"
    /\ timer' = [timer EXCEPT ![o] = "fired"]
    /\ IF pc[o] = "awaitFetch"
       THEN Settle(o, "timeout", fetchUsersRejected(AbortError))
       ELSE UNCHANGED <<page, pc, last>>
    /\ UNCHANGED <<overlapped, pureVars>>

\* The transport fails before any response: fetch rejects with a TypeError.
\* clearTimeout is not reached.
FetchReject(o) ==
    /\ pc[o] = "awaitFetch"
    /\ \E e \in TransportErrors : Settle(o, "network", fetchUsersRejected(e))
    /\ UNCHANGED <<timer, overlapped, pureVars>>

\* The response headers arrive: clearTimeout, then the status check.
ResponseHeaders(o) ==
    /\ pc[o] = "awaitFetch"
    /\ timer' = [timer EXCEPT ![o] = "cleared"]
    /\ \E r \in Responses :
          IF ResponseOk(r[1])
          THEN /\ pc' = [pc EXCEPT ![o] = "awaitJson"]
               /\ last' = Segment(o, "headers", "none", Undefined, NoError, NoError)
               /\ UNCHANGED page
          ELSE Settle(o, "http", fetchUsersNotOk(r[1], r[2]))
    /\ UNCHANGED <<overlapped, pureVars>>

\* response.json() resolves.
BodyResolve(o) ==
    /\ pc[o] = "awaitJson"
    /\ \E body \in Bodies : Settle(o, "notArray", fetchUsersParsed(body))
    /\ UNCHANGED <<timer, overlapped, pureVars>>

\* response.json() rejects.
BodyReject(o) ==
    /\ pc[o] = "awaitJson"
    /\ \E e \in BodyErrors :
          Settle(o, IF e.name = "SyntaxError" THEN "parse" ELSE "bodyNetwork",
                 fetchUsersRejected(e))
    /\ UNCHANGED <<timer, overlapped, pureVars>>

Next ==
    \E o \in Ops :
        \/ Click(o)
        \/ TimerFire(o)
        \/ FetchReject(o)
        \/ ResponseHeaders(o)
        \/ BodyResolve(o)
        \/ BodyReject(o)

Spec == Init /\ [][Next]_vars

\* The timer, once armed and not cleared, fires; nothing obliges the network.
FairSpec == Spec /\ \A o \in Ops : WF_vars(TimerFire(o))

(***************************************************************************)
(* createUserCard applied on its own to one record.                        *)
(***************************************************************************)
CardInit ==
    /\ HandlerInit
    /\ arg \in CardInputs
    /\ result = Undefined

MakeCard ==
    /\ result = Undefined
    /\ result' = CardTable[arg]
    /\ UNCHANGED <<arg, handlerVars>>

CardSpec == CardInit /\ [][MakeCard]_vars

(***************************************************************************)
(* escapeHTML applied on its own to one string.                            *)
(***************************************************************************)
\* Input strings are made of these pieces: each character escapeHTML
\* replaces, an ordinary character, and the tail of an entity, so that
\* "&" followed by "lt;" is an input that already reads as an entity.
EscapePieces == {"&", "<", ">", "\"", "'", Backtick, "/", "a", "lt;"}

RECURSIVE Concat(_)
Concat(q) == IF q = <<>> THEN "" ELSE Head(q) \o Concat(Tail(q))

EscapeInputs == {Concat(q) : q \in SeqsUpTo(EscapePieces, MaxParts)}

\* escapeHTML on each input string, computed once.
EscapeTable == [s \in EscapeInputs |-> escapeHTML(Str(s))]

EscapeInit ==
    /\ HandlerInit
    /\ arg \in {Str(s) : s \in EscapeInputs}
    /\ result = Undefined

Escape ==
    /\ result = Undefined
    /\ result' = Str(EscapeTable[arg.v])
    /\ UNCHANGED <<arg, handlerVars>>

EscapeSpec == EscapeInit /\ [][Escape]_vars

(***************************************************************************)
(* Properties.                                                             *)
(***************************************************************************)
FixedSentences == {MsgUnexpected, MsgConnect, MsgServer, MsgTimeout}

Started == {o \in Ops : pc[o] # "idle"}
Completed == {o \in Ops : pc[o] = "done"}

\* C1: on every path of an operation the loading indicator is shown when the
\* operation starts and hidden when it completes, and hideLoading runs exactly
\* once per operation: showLoading has run once per started operation,
\* hideLoading once per completed one and never for one still pending.
LoadingBracketsOperation ==
    /\ page.showCalls = Cardinality(Started)
    /\ page.hideCalls = Cardinality(Completed)
    /\ last.step = "click" => ~page.loadingHidden
    /\ last.step = "settle" => page.loadingHidden /\ pc[last.op] = "done"

\* C1 witness: an operation completed on the path where rendering threw.
RenderThrewAndCompleted ==
    /\ last.step = "settle"
    /\ last.event = "render"
    /\ page.hideCalls >= 1

\* C2: when the timer fires while fetch is pending, the request is aborted,
\* the operation ends with the timeout error and the banner shows the
\* timeout sentence.
TimeoutShowsTimeoutSentence ==
    last.event = "timeout" =>
        /\ timer[last.op] = "fired"
        /\ pc[last.op] = "done"
        /\ last.caught = Err("Error", "Request timeout: The server took too long to respond")
        /\ ~page.errorHidden
        /\ page.errorText = WarningMarker \o MsgTimeout

\* C2 witness: an operation just ended by its timer.
TimedOut == last.event = "timeout" /\ last.step = "settle"

\* C3: a response with a non-success status ends the operation with the
\* banner showing the server-error sentence, whatever the status and reason.
HttpStatusShowsServerSentence ==
    last.event = "http" =>
        /\ ~page.errorHidden
        /\ page.errorText = WarningMarker \o MsgServer

\* C4: a transport failure before any response ends the operation with the
\* banner showing the unable-to-connect sentence.
TransportFailureShowsConnectSentence ==
    last.event = "network" =>
        /\ ~page.errorHidden
        /\ page.errorText = WarningMarker \o MsgConnect

\* C5: a success response whose body is unparsable or is JSON other than an
\* array ends the operation with no card and the banner showing the
\* unexpected-error sentence.
InvalidPayloadShowsUnexpectedSentence ==
    last.event \in {"parse", "notArray"} =>
        /\ page.container = <<>>
        /\ ~page.errorHidden
        /\ page.errorText = WarningMarker \o MsgUnexpected

\* C6: fetchUsers returns a list only when every element of the array is an
\* object, so the renderer never receives an array with a non-object element.
OnlyArraysOfObjectsReachRenderer ==
    last.step = "settle" /\ last.users.t = "array" =>
        \A i \in 1..Len(last.users.v) : last.users.v[i].t = "object"

\* C7: the banner text is always the warning marker followed by one of the
\* fixed sentences, and never contains the message of the error handled.
BannerIsFixedSentence ==
    /\ page.errorText \in {""} \cup {WarningMarker \o m : m \in FixedSentences}
    /\ last.caught # NoError =>
          /\ ~page.errorHidden
          /\ page.errorText # ""
          /\ ~Includes(page.errorText, last.caught.message)

\* C7 witness: a failure whose message matches none of handleError's patterns
\* has been put in the banner.
UnmatchedFailureShown ==
    /\ last.step = "settle"
    /\ last.event = "network"
    /\ ~page.errorHidden

\* C8: no exception leaves the handler; when rendering a fetched list throws,
\* the banner shows the unexpected-error sentence and the container holds no
\* card of the failed render.
RenderExceptionIsCaught ==
    /\ last.uncaught = NoError
    /\ last.event = "render" =>
          /\ last.caught = NullReadError
          /\ ~page.errorHidden
          /\ page.errorText = WarningMarker \o MsgUnexpected
          /\ page.container = <<>>

\* C8 witness: rendering threw on a null element that follows an object.
RenderThrewAfterACard ==
    /\ last.event = "render"
    /\ Len(last.users.v) >= 2
    /\ last.users.v[1].t = "object"
    /\ last.users.v[2].t = "null"

\* C9: with the timer firing whenever it stays armed, every operation that
\* is waiting (for the response or for its body) eventually completes.
EveryOperationCompletes ==
    \A o \in Ops : (pc[o] \in {"awaitFetch", "awaitJson"}) ~> (pc[o] = "done")

\* C10: for every non-empty list fetchUsers returned, the container holds
\* exactly one card per element, in the order of the list.
OneCardPerRecordInOrder ==
    last.step = "settle" /\ last.users.t = "array" /\ Len(last.users.v) > 0 =>
        /\ Len(page.container) = Len(last.users.v)
        /\ \A i \in 1..Len(last.users.v) :
              page.container[i] = CardTable[last.users.v[i]].value

\* C11 as stated: an operation that fetched an empty list leaves exactly the
\* one empty message in the container, no card, and no error banner.
EmptyListShowsOneEmptyMessage ==
    last.event = "rendered" /\ last.users.v = <<>> =>
        /\ page.container = <<NoUsersMessage>>
        /\ page.container[1].text = "No users found to display."
        /\ last.caught = NoError
        /\ page.errorHidden

\* C11 as amended: an operation that fetched an empty list leaves exactly
\* the one empty message in the container and no card, and it shows no error
\* itself; the banner is hidden as long as no click came while an earlier
\* operation was pending.
EmptyListShowsOneEmptyMessageUnlessOverlap ==
    last.event = "rendered" /\ last.users.v = <<>> =>
        /\ page.container = <<NoUsersMessage>>
        /\ page.container[1].text = "No users found to display."
        /\ last.caught = NoError
        /\ ~overlapped => page.errorHidden

\* C11 witness: a second operation, after a completed first one, fetched the
\* empty list.
EmptyListFetchedAfterAnotherOperation ==
    /\ last.event = "rendered"
    /\ last.users.v = <<>>
    /\ last.op = 2
    /\ ~overlapped

\* The record has no address.city: no address, or an address without city.
CityMissing(user) ==
    \/ Get(user, "address").t \in {"undefined", "null"}
    \/ Get(Get(user, "address"), "city") = Undefined

\* C12: for every record and every subset of id, name, email, address.city,
\* username missing from it, createUserCard returns a card that shows the
\* literal fallback for each missing field.
MissingFieldsShowFallbacks ==
    result # Undefined =>
        /\ ~result.threw
        /\ Get(arg, "id") = Undefined => result.value.userId = "ID: N/A"
        /\ Get(arg, "name") = Undefined =>
              result.value.name = IconUser \o "Name not available"
        /\ Get(arg, "email") = Undefined =>
              result.value.email = IconEmail \o "Email not available"
        /\ CityMissing(arg) =>
              result.value.city = IconCity \o "City not available"
        /\ Get(arg, "username") = Undefined =>
              result.value.username = IconUsername \o "Username not available"

\* C12 witness: a card was made for a record with a name and an id but no
\* address, email or username.
CardMadeForPartialRecord ==
    /\ result # Undefined
    /\ Get(arg, "address") = Undefined
    /\ Get(arg, "email") = Undefined
    /\ Get(arg, "username") = Undefined
    /\ Get(arg, "name") = Str("A&B")
    /\ Get(arg, "id") = Num(1)

\* The characters escapeHTML replaces.
Specials == {"&", "<", ">", "\"", "'", Backtick, "/"}

\* The character references an HTML decoder resolves, as far as escapeHTML
\* can produce them: reference and character.
Entities ==
    {<<"&amp;", "&">>, <<"&lt;", "<">>, <<"&gt;", ">">>, <<"&quot;", "\"">>,
     <<"&#039;", "'">>, <<"&#96;", Backtick>>, <<"&#47;", "/">>}

\* Whether reference ref stands in s at position i.
StandsAt(s, i, ref) ==
    i + Len(ref) - 1 <= Len(s) /\ SubSeq(s, i, i + Len(ref) - 1) = ref

\* An HTML decoder: one pass from the left, each character reference replaced
\* by its character, every other character kept.
DecodeHTML(s) ==
    LET n == Len(s)
        F[i \in 1..(n + 1)] ==
            IF i > n THEN ""
            ELSE IF \E e \in Entities : StandsAt(s, i, e[1])
            THEN LET e == CHOOSE e \in Entities : StandsAt(s, i, e[1])
                 IN  e[2] \o F[i + Len(e[1])]
            ELSE SubSeq(s, i, i) \o F[i + 1]
    IN  F[1]

\* C13: decoding the output of escapeHTML gives back the input string, also
\* for inputs that already contain entity-like text.
EscapeRoundTrips ==
    result # Undefined => DecodeHTML(result.v) = arg.v

\* C13 witness: escapeHTML was applied to a string that reads as an entity.
EntityLikeInputEscaped ==
    /\ result # Undefined
    /\ arg.v = "&lt;"

\* C14 as stated: no character of the input that escapeHTML replaces occurs
\* in the output.
NoSpecialOfInputInOutput ==
    result # Undefined =>
        \A c \in Specials : Includes(arg.v, c) => ~Includes(result.v, c)

\* C14 as amended: none of < > " ' grave accent / occurs in the output; an
\* ampersand of the input is written "&amp;", and every ampersand of the
\* output begins one of the character references.
NoSpecialInOutputButEntityAmpersand ==
    result # Undefined =>
        /\ \A c \in Specials \ {"&"} : ~Includes(result.v, c)
        /\ Includes(arg.v, "&") => Includes(result.v, "&amp;")
        /\ \A i \in 1..Len(result.v) :
              SubSeq(result.v, i, i) = "&" =>
                  \E e \in Entities : StandsAt(result.v, i, e[1])

\* C14 witness: escapeHTML was applied to a string with a slash, a quote and
\* an ampersand.
SlashQuoteAmpersandEscaped ==
    /\ result # Undefined
    /\ arg.v = "/'&"

\* The text s with its first n characters removed.
After(s, n) == SubSeq(s, n + 1, Len(s))

\* Text to which the escaping substitution has been applied: none of the
\* replaced characters but the ampersand, and that only to begin a reference.
IsEscaped(s) ==
    /\ \A c \in Specials \ {"&"} : ~Includes(s, c)
    /\ \A i \in 1..Len(s) :
          SubSeq(s, i, i) = "&" => \E e \in Entities : StandsAt(s, i, e[1])

\* What a card displays for field value v: its text, or the fallback.
Displayed(v, fallback) == IF Truthy(v) THEN JsString(v) ELSE fallback

\* The text of each field of the card in result, after the field's label.
IdText == After(result.value.userId, Len("ID: "))
NameText == After(result.value.name, Len(IconUser))
EmailText == After(result.value.email, Len(IconEmail))
CityText == After(result.value.city, Len(IconCity))
UsernameText == After(result.value.username, Len(IconUsername))

\* C15 as stated: the escaping substitution has been applied to the text of
\* every field of the card, the id included.
EveryFieldEscaped ==
    result # Undefined =>
        /\ IsEscaped(IdText)
        /\ IsEscaped(NameText)
        /\ IsEscaped(EmailText)
        /\ IsEscaped(CityText)
        /\ IsEscaped(UsernameText)

\* C15 as amended: name, email, city and username are put into the markup
\* escaped, whether the text is the record's or the fallback, and decode to
\* that text; the id is set as plain text (textContent), not escaped.
MarkupFieldsEscapedIdPlain ==
    result # Undefined =>
        /\ IsEscaped(NameText)
        /\ DecodeHTML(NameText) = Displayed(Get(arg, "name"), "Name not available")
        /\ IsEscaped(EmailText)
        /\ DecodeHTML(EmailText) = Displayed(Get(arg, "email"), "Email not available")
        /\ IsEscaped(CityText)
        /\ DecodeHTML(CityText) =
              Displayed(GetOpt(Get(arg, "address"), "city"), "City not available")
        /\ IsEscaped(UsernameText)
        /\ DecodeHTML(UsernameText) =
              Displayed(Get(arg, "username"), "Username not available")
        /\ IdText = Displayed(Get(arg, "id"), "N/A")

\* C15 witness: a card was made from a record whose id, name, city and
\* username all hold a character that escapeHTML replaces, and whose email is
\* absent.
CardMadeFromTextToEscape ==
    /\ result # Undefined
    /\ Get(arg, "id") = Str("<7>")
    /\ Get(arg, "name") = Str("A&B")
    /\ Get(arg, "username") = Str("a/b")
    /\ Get(arg, "address") = Address(Str("O'Rome"))
    /\ Get(arg, "email") = Undefined

\* The container shows at least one user card.
HasCards == \E i \in 1..Len(page.container) : page.container[i].class = "user-card"

\* C16: as long as no click came while an earlier operation was pending, the
\* display goes Idle, Loading, Rendered or ErrorShown, Idle: while the
\* operation is pending the indicator shows, the banner is hidden and the
\* container is empty; when nothing is pending the indicator is hidden; and
\* an operation that has completed leaves exactly one of banner and container
\* content (cards or the empty message) visible.
SingleOperationDisplayCycle ==
    ~overlapped =>
        /\ Pending # {} =>
              /\ ~page.loadingHidden
              /\ page.errorHidden
              /\ page.container = <<>>
        /\ Pending = {} => page.loadingHidden
        /\ Pending = {} /\ Completed # {} =>
              (page.errorHidden <=> page.container # <<>>)

\* C16 witness: a second operation is loading after a first one, not
\* overlapping, that had ended with the banner shown.
LoadingAfterAnErrorShown ==
    /\ ~overlapped
    /\ pc[1] = "done"
    /\ pc[2] = "awaitJson"
    /\ page.errorText # ""

\* The cards displayUsers makes of the list users.
CardsOf(users) == [i \in 1..Len(users.v) |-> CardTable[users.v[i]].value]

\* C17: overlapping operations or not, the container only ever changes to
\* empty, to the single empty message of a response with an empty list, or to
\* the complete cards of the one list just rendered, in that list's order: it
\* never holds a partial list or the cards of two responses.
ContainerReplacedWhole ==
    [][\/ page'.container = page.container
       \/ page'.container = <<>>
       \/ /\ last'.event = "rendered"
          /\ last'.users.v = <<>>
          /\ page'.container = <<NoUsersMessage>>
       \/ /\ last'.event = "rendered"
          /\ last'.users.v # <<>>
          /\ page'.container = CardsOf(last'.users)]_vars

\* C17 witness: two overlapping operations have both rendered a list, the
\* second one of two records.
TwoOverlappingRenders ==
    /\ overlapped
    /\ Completed = {1, 2}
    /\ last.event = "rendered"
    /\ Len(page.container) = 2
    /\ HasCards

\* C18 as stated: the error banner and user cards are never visible together.
BannerAndCardsNeverTogether == ~(~page.errorHidden /\ HasCards)

\* C18 as amended: the error banner and user cards are never visible
\* together as long as no click came while an earlier operation was pending.
BannerAndCardsNeverTogetherUnlessOverlap ==
    ~overlapped => ~(~page.errorHidden /\ HasCards)

\* C18 witness: cards are shown by a second operation that followed, without
\* overlap, one that had shown the banner.
CardsAfterAnErrorShown ==
    /\ ~overlapped
    /\ Completed = {1, 2}
    /\ HasCards
    /\ page.errorText # ""

\* C19 as stated: the loading indicator is visible exactly while some
\* operation has not completed.
LoadingVisibleWhilePending == (Pending # {}) <=> ~page.loadingHidden

\* C19 as amended: the indicator is visible only while some operation is
\* pending, and it is visible whenever one is pending as long as no click
\* came while an earlier operation was pending.
LoadingVisibleWhilePendingUnlessOverlap ==
    /\ ~page.loadingHidden => Pending # {}
    /\ ~overlapped => (Pending # {} => ~page.loadingHidden)

\* C19 witness: a second operation is pending after a first one has
\* completed, without overlap.
SecondOperationPendingAlone ==
    /\ ~overlapped
    /\ pc[1] = "done"
    /\ pc[2] = "awaitFetch"

\* C20: every field present in the record, an id of 0 and an empty-string
\* name, email, city or username included, is displayed with its own value
\* and not with the fallback.
PresentFieldsShowOwnValue ==
    result # Undefined =>
        /\ Get(arg, "id") # Undefined => IdText = JsString(Get(arg, "id"))
        /\ Get(arg, "name") # Undefined =>
              DecodeHTML(NameText) = JsString(Get(arg, "name"))
        /\ Get(arg, "email") # Undefined =>
              DecodeHTML(EmailText) = JsString(Get(arg, "email"))
        /\ ~CityMissing(arg) =>
              DecodeHTML(CityText) = JsString(Get(Get(arg, "address"), "city"))
        /\ Get(arg, "username") # Undefined =>
              DecodeHTML(UsernameText) = JsString(Get(arg, "username"))

====
